---------------------------- MODULE Spec2Model ----------------------------
(***************************************************************************)
(* Token collection and crafting game on a globally addressed grid         *)
(* (src/src/main.ts).  Two snapshots of the program are modelled:          *)
(*   "fixed"   - main.ts lines 1..398: a fixed grid of cells created once  *)
(*               around the start cell, win set {8,16};                    *)
(*   "dynamic" - main.ts lines 400..897: cells spawned and despawned with  *)
(*               the visible map area, win set {32,64}.                    *)
(* Latitudes and longitudes are integers counted in units of half a cell   *)
(* (0.00005 degrees), so that cell corners and cell centres are exact.     *)
(***************************************************************************)
EXTENDS Integers, Sequences, FiniteSets, TLC

VARIABLES
    version,          \* which snapshot runs: "fixed" or "dynamic"
    playerCellId,     \* let playerCellId: CellId
    playerInventory,  \* let playerInventory: number | null
    cells,            \* const cells = new Map<string, Cell>()
    statusPanel,      \* statusPanelDiv.innerHTML: <<message kind, values>>
    inventoryPanel,   \* inventoryPanelDiv.innerHTML
    mapCenter,        \* centre of the Leaflet map view
    panTarget,        \* <<target>> of a running panTo animation, else <<>>
    outcome,          \* history: the branch the last handled event took
                      \* and the key of the cell it wrote
    emptied,          \* history: keys of the cells whose last interaction
                      \* was a pickup
    staleLayers       \* cell objects deleted from cells of which a layer
                      \* with a click listener is still on the map

vars == <<version, playerCellId, playerInventory, cells, statusPanel,
          inventoryPanel, mapCenter, panTarget, outcome, emptied,
          staleLayers>>

---------------------------------------------------------------------------
(* Bounds of the model *)

\* the player walks at most this many cells away from the start cell
MaxWalk == 1

\* the user drags the map view east of the start view, by at most MaxPan
\* cells
MaxPan == 1

\* half the extent of the map view, in units; with 0 the view is a point
\* and the visible cells are those the padding of getVisibleCellBounds adds
ViewHalf == 0

\* crafting is explored up to this token value
MaxValue == 32

\* the fixed snapshot creates its grid this many cells in each direction
MaxGrid == 3

\* in the walk around the geographic origin the player stands on the cells
\* (i, j) with i in 0 .. 1 and j in 0 .. MaxOrigin
MaxOrigin == 9

\* in the walk off the grid of the fixed snapshot the player goes up to
\* this many cells east or west of the start cell, along its row
MaxStray == 6

---------------------------------------------------------------------------
(* Program constants *)

\* tokenValue: number | null
NULL == -1

\* degrees per cell, in units of half a cell
CELL_SIZE == 2

INTERACTION_DISTANCE == 3

\* 0.1, in hundredths
TOKEN_SPAWN_PROBABILITY == 10

\* cells in each direction from the centre: 50 in the source, cut down to
\* the bound MaxGrid
VISIBLE_GRID_SIZE == MaxGrid

CLASSROOM_LATLNG == [lat |-> 739958, lng |-> -2441141]

\* mutant: the win set of the fixed snapshot is kept in the dynamic one
WIN_TOKEN_VALUES_Old(v) == {8, 16}

WIN_TOKEN_VALUES(v) == IF v = "fixed" THEN {8, 16} ELSE {32, 64}

---------------------------------------------------------------------------
(* Deterministic spawn oracle: luck(key) in hundredths, 0..99 *)

LUCK_SCALE == 100
LUCK_P == 3001
LUCK_M == 397
LUCK_K == 32

\* numeric code of the n-th piece of a key: the two cell indices are
\* numbers, every later piece is the "initialValue" suffix
keyCode(key, n) == IF n <= 2 THEN key[n] % LUCK_P ELSE LUCK_K

RECURSIVE luckHash(_, _, _)
luckHash(key, n, x) ==
    IF n > Len(key) THEN x
    ELSE luckHash(key, n + 1,
                  (((x * LUCK_M + keyCode(key, n)) % LUCK_P) * (x + LUCK_K))
                      % LUCK_P)

luck(key) == (luckHash(key, 1, 1) \div 7) % LUCK_SCALE

---------------------------------------------------------------------------
(* Coordinate system *)

cellIdToKey(cellId) == <<cellId.i, cellId.j>>

keyToCellId(key) == [i |-> key[1], j |-> key[2]]

\* The key as the text the template literal produces, character by
\* character.  The cells map and luck are keyed by this text; the model
\* keeps the pair <<i, j>>, which is the text cut at its comma and read as
\* two numbers.
DigitChar == <<"0", "1", "2", "3", "4", "5", "6", "7", "8", "9">>

RECURSIVE naturalText(_)
naturalText(n) ==
    IF n < 10 THEN <<DigitChar[n + 1]>>
    ELSE naturalText(n \div 10) \o <<DigitChar[(n % 10) + 1]>>

\* ${n} for an integer n
numberText(n) == IF n < 0 THEN <<"-">> \o naturalText(-n) ELSE naturalText(n)

\* mutant: the two numbers are not separated
cellKeyTextNoComma(cellId) == numberText(cellId.i) \o numberText(cellId.j)

\* `${cellId.i},${cellId.j}`
cellKeyText(cellId) ==
    numberText(cellId.i) \o <<",">> \o numberText(cellId.j)

\* `${spawnKey},initialValue`
valueKeyText(cellId) ==
    cellKeyText(cellId) \o
        <<",", "i", "n", "i", "t", "i", "a", "l", "V", "a", "l", "u", "e">>

\* mutant: the quotient is truncated toward zero
latLngToCellIdTrunc(lat, lng) ==
    LET trunc(x) == IF x < 0 THEN -((-x) \div CELL_SIZE) ELSE x \div CELL_SIZE
    IN  [i |-> trunc(lat), j |-> trunc(lng)]

latLngToCellId(lat, lng) == [i |-> lat \div CELL_SIZE, j |-> lng \div CELL_SIZE]

cellIdToBounds(cellId) ==
    [sw |-> [lat |-> cellId.i * CELL_SIZE, lng |-> cellId.j * CELL_SIZE],
     ne |-> [lat |-> (cellId.i + 1) * CELL_SIZE,
             lng |-> (cellId.j + 1) * CELL_SIZE]]

\* (i + 0.5) * CELL_SIZE
cellIdToCenter(cellId) ==
    [lat |-> ((2 * cellId.i + 1) * CELL_SIZE) \div 2,
     lng |-> ((2 * cellId.j + 1) * CELL_SIZE) \div 2]

initialPlayerCellId ==
    latLngToCellId(CLASSROOM_LATLNG.lat, CLASSROOM_LATLNG.lng)

abs(n) == IF n < 0 THEN -n ELSE n

\* mutant: the larger of the two coordinate differences
cellDistanceChebyshev(cellId1, cellId2) ==
    IF abs(cellId1.i - cellId2.i) > abs(cellId1.j - cellId2.j)
    THEN abs(cellId1.i - cellId2.i)
    ELSE abs(cellId1.j - cellId2.j)

cellDistance(cellId1, cellId2) ==
    abs(cellId1.i - cellId2.i) + abs(cellId1.j - cellId2.j)

\* mutants: the range is one cell too wide, or the bound is strict
isInteractableWide(cellId, player) ==
    cellDistance(cellId, player) <= INTERACTION_DISTANCE + 1

isInteractableStrict(cellId, player) ==
    cellDistance(cellId, player) < INTERACTION_DISTANCE

isInteractable(cellId, player) ==
    cellDistance(cellId, player) <= INTERACTION_DISTANCE

---------------------------------------------------------------------------
(* Cells *)

\* rectangle: TRUE when drawn in the interactable style;
\* marker: the token value the marker shows, NULL when there is no marker
updateCellVisual(cell, player) ==
    [cell EXCEPT !.rectangle = isInteractable(cell.cellId, player),
                 !.marker = cell.tokenValue]

\* mutant: the scaled draw is rounded to the nearest integer
initialTokenValueRound(draw) ==
    ((draw * 8 + LUCK_SCALE \div 2) \div LUCK_SCALE) + 1

\* Math.floor(luck(valueKey) * 8) + 1, for a draw given in units of
\* 1 / LUCK_SCALE
initialTokenValue(draw) == ((draw * 8) \div LUCK_SCALE) + 1

\* mutant: the luck key is the position of the cell relative to the player
spawnTokenRelative(cell, player) ==
    LET spawnKey == cellIdToKey([i |-> cell.cellId.i - player.i,
                                 j |-> cell.cellId.j - player.j])
        luckValue == luck(spawnKey)
        valueKey == Append(spawnKey, "initialValue")
        tokenValue == initialTokenValue(luck(valueKey))
    IN  IF luckValue < TOKEN_SPAWN_PROBABILITY
        THEN updateCellVisual([cell EXCEPT !.tokenValue = tokenValue], player)
        ELSE cell

spawnTokenInCell(cell, player) ==
    LET spawnKey == cellIdToKey(cell.cellId)
        luckValue == luck(spawnKey)
        valueKey == Append(spawnKey, "initialValue")
        tokenValue == initialTokenValue(luck(valueKey))
    IN  IF luckValue < TOKEN_SPAWN_PROBABILITY
        THEN updateCellVisual([cell EXCEPT !.tokenValue = tokenValue], player)
        ELSE cell

\* mutant: the cell is created without the call of spawnTokenInCell
createCellEmpty(cellId, player) ==
    updateCellVisual([cellId |-> cellId, rectangle |-> FALSE,
                      tokenValue |-> NULL, marker |-> NULL], player)

createCell(cellId, player) ==
    LET cell == [cellId |-> cellId, rectangle |-> FALSE,
                 tokenValue |-> NULL, marker |-> NULL]
    IN  updateCellVisual(spawnTokenInCell(cell, player), player)

\* the inventory panel and the status panel after updateInventoryDisplay
updateInventoryDisplay(inv, status, ver) ==
    IF inv # NULL
    THEN IF inv \in WIN_TOKEN_VALUES(ver)
         THEN [inventoryPanel |-> [value |-> inv, win |-> TRUE],
               statusPanel |-> <<"Congratulations">>]
         ELSE [inventoryPanel |-> [value |-> inv, win |-> FALSE],
               statusPanel |-> status]
    ELSE [inventoryPanel |-> [value |-> NULL, win |-> FALSE],
          statusPanel |-> status]

---------------------------------------------------------------------------
(* Visibility *)

\* mutant: the padding is one cell
getVisibleCellBoundsOnePad(center) ==
    LET sw == [lat |-> center.lat - ViewHalf, lng |-> center.lng - ViewHalf]
        ne == [lat |-> center.lat + ViewHalf, lng |-> center.lng + ViewHalf]
        padding == CELL_SIZE
        ceilDiv(a, b) == -((-a) \div b)
    IN  [minI |-> (sw.lat - padding) \div CELL_SIZE,
         maxI |-> ceilDiv(ne.lat + padding, CELL_SIZE),
         minJ |-> (sw.lng - padding) \div CELL_SIZE,
         maxJ |-> ceilDiv(ne.lng + padding, CELL_SIZE)]

getVisibleCellBounds(center) ==
    LET sw == [lat |-> center.lat - ViewHalf, lng |-> center.lng - ViewHalf]
        ne == [lat |-> center.lat + ViewHalf, lng |-> center.lng + ViewHalf]
        padding == CELL_SIZE * 2
        ceilDiv(a, b) == -((-a) \div b)
    IN  [minI |-> (sw.lat - padding) \div CELL_SIZE,
         maxI |-> ceilDiv(ne.lat + padding, CELL_SIZE),
         minJ |-> (sw.lng - padding) \div CELL_SIZE,
         maxJ |-> ceilDiv(ne.lng + padding, CELL_SIZE)]

\* the keys of the cells within the visible bounds
visibleCellKeySet(center) ==
    LET visibleBounds == getVisibleCellBounds(center)
    IN  {cellIdToKey([i |-> i, j |-> j]) :
            i \in visibleBounds.minI .. visibleBounds.maxI,
            j \in visibleBounds.minJ .. visibleBounds.maxJ}

\* the layers of a cell object on the map: its rectangle and, when it
\* holds a token, its marker; both carry a click listener bound to the
\* cell object
cellLayers(cell) ==
    {"rectangle"} \cup (IF cell.marker # NULL THEN {"marker"} ELSE {})

\* mutant: only the rectangle is removed from the map
removeCellRectangleOnly(cell) == cellLayers(cell) \ {"rectangle"}

\* removeCell: the layers of the cell that are still on the map after it
removeCell(cell) ==
    LET removed == {"rectangle"} \cup
                       (IF cell.marker # NULL THEN {"marker"} ELSE {})
    IN  cellLayers(cell) \ removed

\* the cell objects that the despawn loop deletes from cs and of which a
\* layer stays on the map
leftOnMap(cs, center) ==
    LET gone == {k \in DOMAIN cs \ visibleCellKeySet(center) :
                    removeCell(cs[k]) # {}}
    IN  {[cell |-> cs[k], layers |-> removeCell(cs[k])] : k \in gone}

\* mutant: the despawn loop stops after the first cell it removes
despawnOne(cs, visibleCellKeys) ==
    LET gone == {key \in DOMAIN cs : key \notin visibleCellKeys}
    IN  IF gone = {} THEN cs
        ELSE [k \in DOMAIN cs \ {CHOOSE key \in gone : TRUE} |-> cs[k]]

\* the despawn loop: removeCell deletes from the map every cell whose key
\* is not visible
despawn(cs, visibleCellKeys) ==
    [k \in {key \in DOMAIN cs : key \in visibleCellKeys} |-> cs[k]]

\* mutant: every visible cell is created anew, active or not
updateVisibleCellsRespawn(cs, center, player) ==
    LET visible == visibleCellKeySet(center)
    IN  [k \in visible |-> createCell(keyToCellId(k), player)]

\* mutant: the cells that stay active are not redrawn
updateVisibleCellsNoRefresh(cs, center, player) ==
    LET visible == visibleCellKeySet(center)
        spawned == [k \in (DOMAIN cs) \cup visible |->
                       IF k \in DOMAIN cs THEN cs[k]
                       ELSE createCell(keyToCellId(k), player)]
    IN  despawn(spawned, visible)

updateVisibleCells(cs, center, player) ==
    LET visible == visibleCellKeySet(center)
        spawned == [k \in (DOMAIN cs) \cup visible |->
                       IF k \in DOMAIN cs THEN cs[k]
                       ELSE createCell(keyToCellId(k), player)]
        kept == despawn(spawned, visible)
    IN  [k \in DOMAIN kept |-> updateCellVisual(kept[k], player)]

\* the grid the fixed snapshot creates once at start-up
fixedGrid(player) ==
    LET offsets == (-VISIBLE_GRID_SIZE) .. (VISIBLE_GRID_SIZE - 1)
    IN  [k \in {cellIdToKey([i |-> player.i + di, j |-> player.j + dj]) :
                   di \in offsets, dj \in offsets} |->
            createCell(keyToCellId(k), player)]

tokenCount(cs) == Cardinality({k \in DOMAIN cs : cs[k].tokenValue # NULL})

---------------------------------------------------------------------------
(* Initial state: the state after the module body has run *)

Init ==
    /\ version \in {"fixed", "dynamic"}
    /\ playerCellId = initialPlayerCellId
    /\ playerInventory = NULL
    /\ mapCenter = CLASSROOM_LATLNG
    /\ panTarget = <<>>
    /\ cells = IF version = "fixed"
               THEN fixedGrid(initialPlayerCellId)
               ELSE updateVisibleCells(<<>>, CLASSROOM_LATLNG,
                                       initialPlayerCellId)
    /\ statusPanel = IF version = "fixed"
                     THEN <<"Ready", tokenCount(fixedGrid(initialPlayerCellId))>>
                     ELSE <<"Ready">>
    /\ inventoryPanel =
           updateInventoryDisplay(NULL, <<"Ready">>, version).inventoryPanel
    /\ outcome = [branch |-> "Init", key |-> <<>>]
    /\ emptied = {}
    /\ staleLayers = {}

---------------------------------------------------------------------------
(* Interaction: a click on the rectangle or the token marker of a cell *)

\* what an event leaves in the history variable outcome: the branch taken
\* and, for a pickup or a craft, the key of the cell it wrote
Took(branch) == [branch |-> branch, key |-> <<>>]

Wrote(branch, key) == [branch |-> branch, key |-> key]

\* mutant: every cell that holds the token value of the target is replaced
setCellByValue(cs, key, cell) ==
    [k \in DOMAIN cs |->
        IF k = key THEN cell
        ELSE IF cs[k].tokenValue = cs[key].tokenValue
        THEN [cs[k] EXCEPT !.tokenValue = cell.tokenValue,
                           !.marker = cell.marker]
        ELSE cs[k]]

\* cs with the cell stored under key replaced
setCell(cs, key, cell) == [cs EXCEPT ![key] = cell]

\* mutant: the values are not compared
tokensMatchAlways(inv, tokenValue) == TRUE

\* playerInventory === cell.tokenValue
tokensMatch(inv, tokenValue) == inv = tokenValue

\* mutants: the cell keeps its value; the doubled value is reported but not
\* written to the cell; the crafted token lands in the hand
craftKeepsValue(cell, inv) ==
    [cell |-> cell, inventory |-> NULL, newValue |-> inv]

craftShowsOnly(cell, inv) ==
    [cell |-> cell, inventory |-> NULL, newValue |-> inv * 2]

craftIntoHand(cell, inv) ==
    [cell |-> [cell EXCEPT !.tokenValue = NULL],
     inventory |-> inv * 2,
     newValue |-> inv * 2]

\* mutant: the crafted value is three times the value held
craftTriple(cell, inv) ==
    LET newValue == inv * 3
    IN  [cell |-> [cell EXCEPT !.tokenValue = newValue],
         inventory |-> NULL,
         newValue |-> newValue]

\* craft: the cell takes the doubled value, the inventory is emptied
craft(cell, inv) ==
    LET newValue == inv * 2
    IN  [cell |-> [cell EXCEPT !.tokenValue = newValue],
         inventory |-> NULL,
         newValue |-> newValue]

\* mutant: the token stays in the cell
pickupKeepsCell(cell) == [cell |-> cell, inventory |-> cell.tokenValue]

\* pickup: the inventory takes the token, the cell is emptied
pickup(cell) ==
    [cell |-> [cell EXCEPT !.tokenValue = NULL],
     inventory |-> cell.tokenValue]

\* playerInventory === null && cell.tokenValue === null
bothEmpty(inv, tokenValue) == inv = NULL /\ tokenValue = NULL

\* mutant: updateInventoryDisplay runs after the handler's message, so
\* that its win message stays in the status panel
statusAfterDisplayLast(shown, message) ==
    IF shown.inventoryPanel.win THEN <<"Congratulations">> ELSE message

\* the handler writes its message after the call of updateInventoryDisplay
statusAfterDisplay(shown, message) == message

\* handleCellInteraction as a function of what it reads: the ruleset ver
\* (which selects WIN_TOKEN_VALUES), the cells, the inventory, the two
\* panels, the player position and the key of the clicked cell
cellInteraction(ver, cs, inv, status, panel, player, key) ==
    LET cell == cs[key]
        same(branch, message) ==
            [cells |-> cs, playerInventory |-> inv, inventoryPanel |-> panel,
             statusPanel |-> message, outcome |-> Took(branch)]
    IN
    IF ~isInteractable(cell.cellId, player) THEN
        same("TooFar", <<"TooFar">>)
    ELSE IF inv # NULL /\ cell.tokenValue # NULL THEN
        IF tokensMatch(inv, cell.tokenValue) THEN
            LET c == craft(cell, inv)
                shown == updateInventoryDisplay(c.inventory, status, ver)
            IN  [cells |-> setCell(cs, key, updateCellVisual(c.cell, player)),
                 playerInventory |-> c.inventory,
                 inventoryPanel |-> shown.inventoryPanel,
                 statusPanel |->
                     statusAfterDisplay(shown, <<"Crafted", c.newValue>>),
                 outcome |-> Wrote("Craft", key)]
        ELSE
            same("Mismatch", <<"CannotCraft", cell.tokenValue, inv>>)
    ELSE IF inv = NULL /\ cell.tokenValue # NULL THEN
        LET p == pickup(cell)
            shown == updateInventoryDisplay(p.inventory, status, ver)
        IN  [cells |-> setCell(cs, key, updateCellVisual(p.cell, player)),
             playerInventory |-> p.inventory,
             inventoryPanel |-> shown.inventoryPanel,
             statusPanel |->
                 statusAfterDisplay(shown, <<"PickedUp", p.inventory>>),
             outcome |-> Wrote("Pickup", key)]
    ELSE IF bothEmpty(inv, cell.tokenValue) THEN
        same("Empty", <<"Empty">>)
    ELSE
        \* inventory full, cell empty: no branch of the handler is taken
        same("NoOp", status)

handleCellInteraction(key) ==
    LET r == cellInteraction(version, cells, playerInventory, statusPanel,
                             inventoryPanel, playerCellId, key)
    IN  /\ outcome' = r.outcome
        /\ r.statusPanel[1] = "Crafted" => r.statusPanel[2] <= MaxValue
        /\ statusPanel' = r.statusPanel
        /\ playerInventory' = r.playerInventory
        /\ inventoryPanel' = r.inventoryPanel
        /\ cells' = r.cells
        /\ emptied' = CASE r.outcome.branch = "Craft" -> emptied \ {key}
                         [] r.outcome.branch = "Pickup" -> emptied \cup {key}
                         [] OTHER -> emptied

Interact(key) ==
    /\ key \in DOMAIN cells
    /\ handleCellInteraction(key)
    /\ UNCHANGED <<version, playerCellId, mapCenter, panTarget, staleLayers>>

\* a click on a layer that is still on the map although its cell object
\* was deleted from cells: the listener runs the handler on that object
InteractStale(layer) ==
    LET key == cellIdToKey(layer.cell.cellId)
        r == cellInteraction(version, [k \in {key} |-> layer.cell],
                             playerInventory, statusPanel, inventoryPanel,
                             playerCellId, key)
        left == IF r.cells[key].marker = NULL
                THEN layer.layers \ {"marker"} ELSE layer.layers
    IN  /\ r.statusPanel[1] = "Crafted" => r.statusPanel[2] <= MaxValue
        /\ outcome' = r.outcome
        /\ statusPanel' = r.statusPanel
        /\ playerInventory' = r.playerInventory
        /\ inventoryPanel' = r.inventoryPanel
        /\ staleLayers' =
               (staleLayers \ {layer}) \cup
                   (IF left = {} THEN {}
                    ELSE {[cell |-> r.cells[key], layers |-> left]})
        /\ UNCHANGED <<version, playerCellId, mapCenter, panTarget, cells,
                       emptied>>

\* the layers on the map that carry a click listener: those of the active
\* cells, named by the key of the cell, and the stale ones
ClickableLayers == DOMAIN cells \cup staleLayers

\* the user clicks on a rectangle or on a token marker
Click(layer) ==
    IF layer \in staleLayers THEN InteractStale(layer) ELSE Interact(layer)

---------------------------------------------------------------------------
(* Movement *)

Directions == {"north", "south", "east", "west"}

step(cellId, dir) ==
    CASE dir = "north" -> [cellId EXCEPT !.i = cellId.i + 1]
      [] dir = "south" -> [cellId EXCEPT !.i = cellId.i - 1]
      [] dir = "east"  -> [cellId EXCEPT !.j = cellId.j + 1]
      [] dir = "west"  -> [cellId EXCEPT !.j = cellId.j - 1]

InWalk(cellId) == cellDistance(cellId, initialPlayerCellId) <= MaxWalk

\* mutant: the new position is not assigned
movePlayerFixedStuck(newCellId) ==
    /\ playerCellId' = playerCellId
    /\ cells' = [k \in DOMAIN cells |->
                    updateCellVisual(cells[k], playerCellId)]
    /\ statusPanel' = <<"Moved">>
    /\ outcome' = Took("Move")
    /\ UNCHANGED <<version, playerInventory, inventoryPanel, mapCenter,
                   panTarget, emptied, staleLayers>>

\* mutant: the grid is created anew around the new position
movePlayerFixedRegrid(newCellId) ==
    /\ playerCellId' = newCellId
    /\ cells' = fixedGrid(newCellId)
    /\ statusPanel' = <<"Moved">>
    /\ outcome' = Took("Move")
    /\ UNCHANGED <<version, playerInventory, inventoryPanel, mapCenter,
                   panTarget, emptied, staleLayers>>

\* movePlayer of the fixed snapshot: every cell visual is refreshed
movePlayerFixed(newCellId) ==
    /\ playerCellId' = newCellId
    /\ cells' = [k \in DOMAIN cells |-> updateCellVisual(cells[k], newCellId)]
    /\ statusPanel' = <<"Moved">>
    /\ outcome' = Took("Move")
    /\ UNCHANGED <<version, playerInventory, inventoryPanel, mapCenter,
                   panTarget, emptied, staleLayers>>

\* movePlayer of the dynamic snapshot.  map.panTo first stops a running
\* pan animation, which leaves the view somewhere on its way and fires
\* moveend; it then starts an animated pan towards the new position (the
\* view has not moved yet when updateVisibleCells runs), or fires moveend
\* at once when the view is already centred there.
movePlayer(newCellId) ==
    LET newPosition == cellIdToCenter(newCellId)
        stops == IF panTarget = <<>> THEN {mapCenter}
                 ELSE {mapCenter, panTarget[1]}
    IN  \E c \in stops :
            LET afterStop == IF panTarget = <<>> THEN cells
                             ELSE updateVisibleCells(cells, c, newCellId)
                afterPan == IF c = newPosition
                            THEN updateVisibleCells(afterStop, c, newCellId)
                            ELSE afterStop
            IN  /\ playerCellId' = newCellId
                /\ mapCenter' = c
                /\ panTarget' = IF c = newPosition THEN <<>>
                                ELSE <<newPosition>>
                /\ cells' = updateVisibleCells(afterPan, c, newCellId)
                /\ statusPanel' = <<"Moved">>
                /\ outcome' = Took("Move")
                /\ staleLayers' = staleLayers \cup leftOnMap(cells, c)
                /\ UNCHANGED <<version, playerInventory, inventoryPanel,
                               emptied>>

\* keydown listener (arrow keys, WASD) and, in the dynamic snapshot, the
\* four movement buttons
Move(dir) ==
    LET newCellId == step(playerCellId, dir)
    IN  /\ InWalk(newCellId)
        /\ IF version = "fixed" THEN movePlayerFixed(newCellId)
           ELSE movePlayer(newCellId)

\* the keys the keydown listener tests, and two keys it does not know
Keys == {"ArrowUp", "w", "W", "ArrowDown", "s", "S",
         "ArrowLeft", "a", "A", "ArrowRight", "d", "D", "Enter", "q"}

\* mutant: the up keys decrease i and the down keys increase it
keydownInverted(cellId, key) ==
    IF key \in {"ArrowUp", "w", "W"}
    THEN [newCellId |-> [cellId EXCEPT !.i = cellId.i - 1], moved |-> TRUE]
    ELSE IF key \in {"ArrowDown", "s", "S"}
    THEN [newCellId |-> [cellId EXCEPT !.i = cellId.i + 1], moved |-> TRUE]
    ELSE IF key \in {"ArrowLeft", "a", "A"}
    THEN [newCellId |-> [cellId EXCEPT !.j = cellId.j - 1], moved |-> TRUE]
    ELSE IF key \in {"ArrowRight", "d", "D"}
    THEN [newCellId |-> [cellId EXCEPT !.j = cellId.j + 1], moved |-> TRUE]
    ELSE [newCellId |-> cellId, moved |-> FALSE]

\* the if / else-if chain of the keydown listener: the cell the key leads
\* to and whether the key is a movement key
keydown(cellId, key) ==
    IF key \in {"ArrowUp", "w", "W"}
    THEN [newCellId |-> [cellId EXCEPT !.i = cellId.i + 1], moved |-> TRUE]
    ELSE IF key \in {"ArrowDown", "s", "S"}
    THEN [newCellId |-> [cellId EXCEPT !.i = cellId.i - 1], moved |-> TRUE]
    ELSE IF key \in {"ArrowLeft", "a", "A"}
    THEN [newCellId |-> [cellId EXCEPT !.j = cellId.j - 1], moved |-> TRUE]
    ELSE IF key \in {"ArrowRight", "d", "D"}
    THEN [newCellId |-> [cellId EXCEPT !.j = cellId.j + 1], moved |-> TRUE]
    ELSE [newCellId |-> cellId, moved |-> FALSE]

\* keydown listener, key by key: movePlayer is called only if (moved)
KeyDown(key) ==
    LET e == keydown(playerCellId, key)
    IN  IF e.moved
        THEN /\ InWalk(e.newCellId)
             /\ IF version = "fixed" THEN movePlayerFixed(e.newCellId)
                ELSE movePlayer(e.newCellId)
        ELSE UNCHANGED vars

---------------------------------------------------------------------------
(* Map view changes of the dynamic snapshot: map.on("moveend", ...) *)

\* mutant: the moveend listener does not recompute the visible cells
PanEndNoRecompute ==
    /\ version = "dynamic"
    /\ panTarget # <<>>
    /\ mapCenter' = panTarget[1]
    /\ panTarget' = <<>>
    /\ outcome' = Took("MoveEnd")
    /\ UNCHANGED <<version, playerCellId, playerInventory, statusPanel,
                   inventoryPanel, emptied, staleLayers, cells>>

\* the pan animation started by movePlayer ends
PanEnd ==
    /\ version = "dynamic"
    /\ panTarget # <<>>
    /\ mapCenter' = panTarget[1]
    /\ panTarget' = <<>>
    /\ outcome' = Took("MoveEnd")
    /\ cells' = updateVisibleCells(cells, panTarget[1], playerCellId)
    /\ staleLayers' = staleLayers \cup leftOnMap(cells, panTarget[1])
    /\ UNCHANGED <<version, playerCellId, playerInventory, statusPanel,
                   inventoryPanel, emptied>>

PanCenters ==
    {[lat |-> CLASSROOM_LATLNG.lat + a, lng |-> CLASSROOM_LATLNG.lng + b] :
        a \in {0}, b \in {n * CELL_SIZE : n \in 0 .. MaxPan}}

\* mutant: the cell visuals are computed from the cell at the view centre
UserPanByView(center) ==
    /\ version = "dynamic"
    /\ mapCenter' = center
    /\ panTarget' = <<>>
    /\ outcome' = Took("MoveEnd")
    /\ cells' = updateVisibleCells(cells, center,
                                   latLngToCellId(center.lat, center.lng))
    /\ staleLayers' = staleLayers \cup leftOnMap(cells, center)
    /\ UNCHANGED <<version, playerCellId, playerInventory, statusPanel,
                   inventoryPanel, emptied>>

\* the user drags the map to a new centre
UserPan(center) ==
    /\ version = "dynamic"
    /\ mapCenter' = center
    /\ panTarget' = <<>>
    /\ outcome' = Took("MoveEnd")
    /\ cells' = updateVisibleCells(cells, center, playerCellId)
    /\ staleLayers' = staleLayers \cup leftOnMap(cells, center)
    /\ UNCHANGED <<version, playerCellId, playerInventory, statusPanel,
                   inventoryPanel, emptied>>

---------------------------------------------------------------------------

Next ==
    \/ \E layer \in ClickableLayers : Click(layer)
    \/ \E dir \in Directions : Move(dir)
    \/ PanEnd
    \/ \E center \in PanCenters : UserPan(center)

Spec == Init /\ [][Next]_vars

\* Worlds without crafting: every active cell that no pickup emptied is as
\* it was materialized.  The player walks, picks tokens up and clicks on
\* cells, and the view changes, so that cells are spawned and despawned in
\* many orders, with and without a token in the inventory.
NextWorlds ==
    \/ \E key \in DOMAIN cells :
          /\ ~(playerInventory # NULL
                  /\ tokensMatch(playerInventory, cells[key].tokenValue))
          /\ Interact(key)
    \/ \E dir \in Directions : Move(dir)
    \/ PanEnd
    \/ \E center \in PanCenters : UserPan(center)

SpecWorlds == Init /\ [][NextWorlds]_vars

\* The fixed snapshot with a player who walks off its grid: along the row
\* of the start cell, up to MaxStray cells east or west of it.
InStray(cellId) ==
    \/ InWalk(cellId)
    \/ /\ cellId.i = initialPlayerCellId.i
       /\ cellDistance(cellId, initialPlayerCellId) <= MaxStray

Stray(dir) ==
    LET newCellId == step(playerCellId, dir)
    IN  /\ version = "fixed"
        /\ InStray(newCellId)
        /\ movePlayerFixed(newCellId)

InitFixed == Init /\ version = "fixed"

NextFixed ==
    \/ \E key \in DOMAIN cells : Interact(key)
    \/ \E dir \in Directions : Stray(dir)

SpecFixed == InitFixed /\ [][NextFixed]_vars

\* The dynamic snapshot with the player around the geographic origin, where
\* the indices of the cells have one or two digits and either sign: the
\* player has walked to one of the cells (i, j) with i in 0 .. 1 and j in
\* 0 .. MaxOrigin, the pan has ended, and the player walks on among these
\* cells.
OriginStarts == {[i |-> a, j |-> b] : a \in 0 .. 1, b \in 0 .. MaxOrigin}

InitOrigin ==
    /\ version = "dynamic"
    /\ playerCellId \in OriginStarts
    /\ playerInventory = NULL
    /\ mapCenter = cellIdToCenter(playerCellId)
    /\ panTarget = <<>>
    /\ cells = updateVisibleCells(<<>>, mapCenter, playerCellId)
    /\ statusPanel = <<"Moved">>
    /\ inventoryPanel =
           updateInventoryDisplay(NULL, <<"Moved">>, version).inventoryPanel
    /\ outcome = Took("MoveEnd")
    /\ emptied = {}
    /\ staleLayers = {}

Roam(dir) ==
    LET newCellId == step(playerCellId, dir)
    IN  /\ version = "dynamic"
        /\ newCellId \in OriginStarts
        /\ movePlayer(newCellId)

NextOrigin ==
    \/ \E dir \in Directions : Roam(dir)
    \/ PanEnd

SpecOrigin == InitOrigin /\ [][NextOrigin]_vars

\* Movement with the keyboard input taken key by key, next to the movement
\* buttons, in the worlds without crafting (a craft changes no position).
NextKeys ==
    \/ NextWorlds
    \/ \E key \in Keys : KeyDown(key)

SpecKeys == Init /\ [][NextKeys]_vars

TypeOK ==
    /\ version \in {"fixed", "dynamic"}
    /\ playerInventory \in {NULL} \cup (1 .. MaxValue)
    /\ \A k \in DOMAIN cells :
          /\ cells[k].cellId = keyToCellId(k)
          /\ cells[k].tokenValue \in {NULL} \cup (1 .. MaxValue)

---------------------------------------------------------------------------
(* Properties *)

\* the cell stored under key lies within the interaction distance
InRange(key) ==
    cellDistance(keyToCellId(key), playerCellId) <= INTERACTION_DISTANCE

\* key was emptied by a pickup, is not active now and is active next
Reenters(key) ==
    /\ key \in emptied
    /\ key \notin DOMAIN cells
    /\ key \in DOMAIN cells'

\* C1: a cell emptied by a pickup that leaves the viewport and re-enters it
\* is still empty on re-entry, and has not reverted to its procedural
\* default.
C1_EmptiedStaysEmpty ==
    [][\A key \in emptied :
          Reenters(key) => cells'[key].tokenValue = NULL]_vars

\* C2: an interaction with an in-range cell holding the value x, with x in
\* the inventory, leaves 2x in the cell, empties the inventory and reports
\* the craft with the new value.
C2_Craft ==
    [][playerInventory # NULL =>
       \A key \in DOMAIN cells :
          (/\ cells[key].tokenValue = playerInventory
           /\ InRange(key)
           /\ Interact(key)) =>
              /\ cells'[key].tokenValue = 2 * playerInventory
              /\ playerInventory' = NULL
              /\ statusPanel' = <<"Crafted", 2 * playerInventory>>]_vars

C2_Witness ==
    /\ outcome.branch = "Craft"
    /\ playerInventory = NULL
    /\ statusPanel = <<"Crafted", 16>>
    /\ cells[outcome.key].tokenValue = 16

\* C3: an interaction with an in-range cell holding v, with the inventory
\* empty, puts exactly v in the inventory, empties the cell and reports the
\* pickup of v.
C3_Pickup ==
    [][playerInventory = NULL =>
       \A key \in DOMAIN cells :
          (/\ cells[key].tokenValue # NULL
           /\ InRange(key)
           /\ Interact(key)) =>
              /\ playerInventory' = cells[key].tokenValue
              /\ cells'[key].tokenValue = NULL
              /\ statusPanel' = <<"PickedUp", cells[key].tokenValue>>]_vars

C3_Witness ==
    /\ outcome.branch = "Pickup"
    /\ playerInventory # NULL
    /\ statusPanel = <<"PickedUp", playerInventory>>
    /\ cells[outcome.key].tokenValue = NULL

\* C4: an interaction with a cell farther than INTERACTION_DISTANCE from
\* the player reports TooFar and changes neither the inventory, nor any
\* cell (its token value included), nor the player position.
C4_TooFar ==
    [][\/ /\ statusPanel' = <<"TooFar">>
          /\ UNCHANGED <<playerInventory, playerCellId, cells>>
       \/ \A key \in DOMAIN cells :
              cellDistance(keyToCellId(key), playerCellId)
                  > INTERACTION_DISTANCE => ~Interact(key)]_vars

\* a rejected click while a token is held and a token lies exactly one
\* cell beyond the interaction distance
C4_Witness ==
    /\ outcome.branch = "TooFar"
    /\ statusPanel = <<"TooFar">>
    /\ playerInventory # NULL
    /\ \E key \in DOMAIN cells :
          /\ cells[key].tokenValue # NULL
          /\ cellDistance(keyToCellId(key), playerCellId)
                 = INTERACTION_DISTANCE + 1

\* C5: the inventory holds none or a single value, and a held token is
\* never replaced by another token: it stays, or a craft removes it.
C5_InventoryCap ==
    [][/\ playerInventory' \in {NULL} \cup (1 .. MaxValue)
       /\ playerInventory # NULL =>
              \/ playerInventory' = playerInventory
              \/ playerInventory' = NULL /\ outcome'.branch = "Craft"]_vars

\* an interaction with a token cell was rejected while a token was held
C5_Witness ==
    /\ outcome.branch = "Mismatch"
    /\ playerInventory # NULL
    /\ statusPanel[1] = "CannotCraft"
    /\ statusPanel[3] = playerInventory

\* C6: the win indication of the inventory panel is true exactly when the
\* inventory holds a value of the win set, {8,16} in the fixed snapshot and
\* {32,64} in the dynamic one; it is false when the inventory is none.
C6_WinIndication ==
    /\ inventoryPanel.value = playerInventory
    /\ inventoryPanel.win =
           (playerInventory \in
               (IF version = "fixed" THEN {8, 16} ELSE {32, 64}))
    /\ playerInventory = NULL => ~inventoryPanel.win

C6_Witness ==
    /\ version = "dynamic"
    /\ outcome.branch = "Pickup"
    /\ playerInventory = 32
    /\ inventoryPanel.win

\* C7: an interaction with an in-range cell holding y while the inventory
\* holds x # y reports the mismatch and leaves the inventory, every cell
\* and the player position unchanged.
C7_ValueMismatch ==
    [][playerInventory # NULL =>
       \A key \in DOMAIN cells :
          (/\ cells[key].tokenValue # NULL
           /\ cells[key].tokenValue # playerInventory
           /\ InRange(key)
           /\ Interact(key)) =>
              /\ statusPanel' =
                     <<"CannotCraft", cells[key].tokenValue, playerInventory>>
              /\ playerInventory' = playerInventory
              /\ cells' = cells
              /\ playerCellId' = playerCellId]_vars

C7_Witness ==
    /\ outcome.branch = "Mismatch"
    /\ playerInventory # NULL
    /\ \E key \in DOMAIN cells :
          /\ InRange(key)
          /\ cells[key].tokenValue # NULL
          /\ statusPanel =
                 <<"CannotCraft", cells[key].tokenValue, playerInventory>>

\* C8: an interaction with an in-range cell without a token, with the
\* inventory empty, reports EmptyCell and changes no state.
C8_EmptyCell ==
    [][playerInventory = NULL =>
       \A key \in DOMAIN cells :
          (/\ cells[key].tokenValue = NULL
           /\ InRange(key)
           /\ Interact(key)) =>
              /\ statusPanel' = <<"Empty">>
              /\ UNCHANGED <<playerInventory, cells, inventoryPanel,
                             playerCellId, mapCenter, panTarget>>]_vars

C8_Witness ==
    /\ outcome.branch = "Empty"
    /\ statusPanel = <<"Empty">>
    /\ playerInventory = NULL

\* the case of C9: an in-range cell without a token, a token in the
\* inventory
FullOnEmpty(key) ==
    /\ InRange(key)
    /\ playerInventory # NULL
    /\ cells[key].tokenValue = NULL

\* C9: an interaction with an in-range cell without a token,
\* with a token in the inventory, changes no state and reports
\* CannotPlaceOnEmpty.
C9_CannotPlaceOnEmpty ==
    [][\A key \in DOMAIN cells :
          (FullOnEmpty(key) /\ Interact(key)) =>
              /\ statusPanel' = <<"CannotPlaceOnEmpty">>
              /\ UNCHANGED <<playerInventory, cells, inventoryPanel,
                             playerCellId>>]_vars

\* C10 as stated: right after a pickup from a cell, a second interaction
\* with that cell reports EmptyCell.
C10_SecondIsEmptyCell ==
    [][(outcome.branch = "Pickup" /\ Interact(outcome.key)) =>
          statusPanel' = <<"Empty">>]_vars

\* C10 amended: after a pickup of v from a cell the inventory holds v and
\* the cell is empty, and a second interaction with that cell right
\* afterwards does not report EmptyCell, the inventory being no longer
\* empty: it changes neither the inventory nor any cell.
C10_SecondIsNoEmptyCell ==
    [][(outcome.branch = "Pickup" /\ Interact(outcome.key)) =>
          /\ cells[outcome.key].tokenValue = NULL
          /\ playerInventory # NULL
          /\ statusPanel = <<"PickedUp", playerInventory>>
          /\ statusPanel' # <<"Empty">>
          /\ UNCHANGED <<playerInventory, cells, inventoryPanel>>]_vars

\* the second interaction has happened: the picked-up token is held and
\* the cell it came from is empty and in range
C10_Witness ==
    /\ outcome.branch = "NoOp"
    /\ playerInventory # NULL
    /\ statusPanel = <<"PickedUp", playerInventory>>
    /\ \E key \in emptied \cap DOMAIN cells :
          /\ cells[key].tokenValue = NULL
          /\ InRange(key)

\* the cell stored under key lies exactly at the interaction distance
AtReach(key) ==
    cellDistance(keyToCellId(key), playerCellId) = INTERACTION_DISTANCE

\* the win set of the snapshot that runs
WinSet == IF version = "fixed" THEN {8, 16} ELSE {32, 64}

\* C11 as stated: with x in the inventory, an interaction with a cell at
\* distance exactly INTERACTION_DISTANCE holding x is a craft (the cell
\* takes 2x, the inventory is emptied), and when 2x is in the win set the
\* win indication is true right after the craft.
C11_CraftWins ==
    [][playerInventory # NULL =>
       \A key \in DOMAIN cells :
          (/\ cells[key].tokenValue = playerInventory
           /\ AtReach(key)
           /\ Interact(key)) =>
              /\ cells'[key].tokenValue = 2 * playerInventory
              /\ playerInventory' = NULL
              /\ 2 * playerInventory \in WinSet => inventoryPanel'.win]_vars

\* C11 amended: such an interaction is a craft (the cell takes 2x, the
\* inventory is emptied, the craft is reported), and the win indication is
\* false right after it, also when 2x is in the win set: the crafted token
\* lies in the cell and the inventory is none.
C11_CraftLeavesNoWin ==
    [][playerInventory # NULL =>
       \A key \in DOMAIN cells :
          (/\ cells[key].tokenValue = playerInventory
           /\ AtReach(key)
           /\ Interact(key)) =>
              /\ cells'[key].tokenValue = 2 * playerInventory
              /\ playerInventory' = NULL
              /\ statusPanel' = <<"Crafted", 2 * playerInventory>>
              /\ ~inventoryPanel'.win]_vars

\* a craft at distance exactly INTERACTION_DISTANCE has left a value of the
\* win set in the cell
C11_Witness ==
    /\ outcome.branch = "Craft"
    /\ AtReach(outcome.key)
    /\ cells[outcome.key].tokenValue \in WinSet
    /\ playerInventory = NULL
    /\ ~inventoryPanel.win

\* the procedurally derived default of a cell: a token is present iff
\* luck(key) < spawn probability, its value is floor(luck(valueKey) * 8) + 1
defaultTokenValue(key) ==
    IF luck(key) < TOKEN_SPAWN_PROBABILITY
    THEN ((luck(Append(key, "initialValue")) * 8) \div LUCK_SCALE) + 1
    ELSE NULL

\* C12: every active cell that has never been the target of a successful
\* pickup or craft holds exactly its procedural default: the cells of the
\* initial state hold it, a cell holds it when it is spawned, and the
\* token value of an active cell is changed by no step other than an
\* interaction with the cell itself, whatever is read, re-rendered,
\* despawned or respawned.
C12_FlyweightDefault ==
    /\ \A key \in DOMAIN cells :
          cells[key].tokenValue = defaultTokenValue(key)
    /\ [][\A key \in DOMAIN cells' :
             \/ /\ key \in DOMAIN cells
                /\ cells'[key].tokenValue = cells[key].tokenValue
             \/ /\ key \notin DOMAIN cells
                /\ cells'[key].tokenValue = defaultTokenValue(key)
             \/ Interact(key)]_vars

\* after a view change, with another cell emptied, a token cell that no
\* pickup emptied holds its default
C12_Witness ==
    /\ outcome.branch = "MoveEnd"
    /\ emptied # {}
    /\ playerInventory # NULL
    /\ \E key \in DOMAIN cells \ emptied :
          /\ cells[key].tokenValue # NULL
          /\ cells[key].tokenValue = defaultTokenValue(key)

\* C13: the mapping that holds the per-cell token state has an entry for a
\* cell only if a pickup or a craft has modified the cell, so that its
\* value differs from its default; spawning, viewing or a rejected
\* interaction adds no entry.
C13_StoreOnlyModified ==
    \A key \in DOMAIN cells :
        cells[key].tokenValue # defaultTokenValue(key)

\* C14: the value an interaction wrote to a cell is the value the next
\* interaction with that cell observes when no other event intervenes:
\* right after a craft that reported 2x, an interaction with the same cell
\* picks up exactly 2x; right after a pickup, an interaction with the same
\* cell finds it empty, so that nothing is picked up or crafted.
C14_RoundTrip ==
    [][/\ (outcome.branch = "Craft" /\ Interact(outcome.key)) =>
              /\ playerInventory' = statusPanel[2]
              /\ statusPanel' = <<"PickedUp", statusPanel[2]>>
              /\ cells'[outcome.key].tokenValue = NULL
       /\ (outcome.branch = "Pickup" /\ Interact(outcome.key)) =>
              /\ cells[outcome.key].tokenValue = NULL
              /\ UNCHANGED <<playerInventory, cells>>]_vars

\* in the fixed snapshot, where a 16 is only ever written by a craft, the
\* 16 has been picked up again
C14_Witness ==
    /\ version = "fixed"
    /\ outcome.branch = "Pickup"
    /\ playerInventory = 16
    /\ statusPanel = <<"PickedUp", 16>>
    /\ cells[outcome.key].tokenValue = NULL

C16_Movement ==
    [][/\ \A dir \in Directions :
              \/ /\ playerCellId' = step(playerCellId, dir)
                 /\ playerInventory' = playerInventory
              \/ ~Move(dir)
       /\ playerInventory' # playerInventory =>
              /\ playerCellId' = playerCellId
              /\ outcome'.key \in DOMAIN cells
              /\ Interact(outcome'.key)
       /\ playerCellId' # playerCellId =>
              \E dir \in Directions : Move(dir)]_vars

\* the player has walked away from the start with a token in hand
C16_Witness ==
    /\ outcome.branch = "Move"
    /\ playerCellId # initialPlayerCellId
    /\ playerInventory # NULL

\* C17: updateVisibleCells is idempotent: from every reachable state of the
\* dynamic snapshot and for every view centre, a second call with the same
\* view and the same player position returns exactly what the first call
\* returned (the same active cells, token values and interactable flags);
\* and the active cells are always what a call with the current view and
\* the current player position returns.
C17_Idempotent ==
    version = "dynamic" =>
        /\ updateVisibleCells(cells, mapCenter, playerCellId) = cells
        /\ \A center \in PanCenters :
              LET once == updateVisibleCells(cells, center, playerCellId)
              IN  updateVisibleCells(once, center, playerCellId) = once

\* after a view change, with a cell that a pickup emptied still active, a
\* first call for another view centre despawns and spawns cells
C17_Witness ==
    /\ version = "dynamic"
    /\ outcome.branch = "MoveEnd"
    /\ emptied \cap DOMAIN cells # {}
    /\ \E center \in PanCenters :
          LET once == updateVisibleCells(cells, center, playerCellId)
          IN  /\ DOMAIN once \ DOMAIN cells # {}
              /\ DOMAIN cells \ DOMAIN once # {}
              /\ updateVisibleCells(once, center, playerCellId) = once

\* C18: a view change (the end of a pan animation or a pan by the user)
\* changes neither the player position nor the inventory; every cell active
\* before and after it keeps its interactable flag, and the flag of every
\* cell active after it is computed from the player position alone.
C18_PanFrame ==
    [][(PanEnd \/ \E center \in PanCenters : UserPan(center)) =>
          /\ UNCHANGED <<playerCellId, playerInventory>>
          /\ \A key \in DOMAIN cells' :
                /\ cells'[key].rectangle =
                       (cellDistance(keyToCellId(key), playerCellId)
                            <= INTERACTION_DISTANCE)
                /\ key \in DOMAIN cells =>
                       cells'[key].rectangle = cells[key].rectangle]_vars

\* the view has been moved away from the player, who holds a token, and
\* both interactable and non-interactable cells are active
C18_Witness ==
    /\ outcome.branch = "MoveEnd"
    /\ latLngToCellId(mapCenter.lat, mapCenter.lng) # playerCellId
    /\ playerInventory # NULL
    /\ \E key \in DOMAIN cells : cells[key].rectangle
    /\ \E key \in DOMAIN cells : ~cells[key].rectangle

\* C19: from every reachable state and for every active cell, the
\* interaction under the baseline ruleset (win values 8 and 16) and the
\* interaction under the extended ruleset (win values 32 and 64) leave the
\* same cells, the same inventory and the same message, take the same branch
\* and show the same inventory value; they can differ only in the win
\* indication.  Two runs that start from the same cells and take the same
\* interactions therefore stay in step.
C19_WinSetSwappable ==
    \A key \in DOMAIN cells :
        LET b == cellInteraction("fixed", cells, playerInventory, statusPanel,
                                 inventoryPanel, playerCellId, key)
            e == cellInteraction("dynamic", cells, playerInventory,
                                 statusPanel, inventoryPanel, playerCellId,
                                 key)
        IN  /\ b.outcome = e.outcome
            /\ b.statusPanel = e.statusPanel
            /\ b.playerInventory = e.playerInventory
            /\ b.inventoryPanel.value = e.inventoryPanel.value
            /\ b.cells = e.cells

\* after a craft, a token within reach whose pickup wins under the baseline
\* ruleset and does not win under the extended one
C19_Witness ==
    /\ outcome.branch = "Craft"
    /\ \E key \in DOMAIN cells :
          LET b == cellInteraction("fixed", cells, playerInventory,
                                   statusPanel, inventoryPanel, playerCellId,
                                   key)
              e == cellInteraction("dynamic", cells, playerInventory,
                                   statusPanel, inventoryPanel, playerCellId,
                                   key)
          IN  /\ b.outcome.branch = "Pickup"
              /\ b.inventoryPanel.win
              /\ ~e.inventoryPanel.win

\* the cells the player can stand on within the walk bound
WalkCells ==
    {[i |-> initialPlayerCellId.i + a, j |-> initialPlayerCellId.j + b] :
        a \in (-MaxWalk) .. MaxWalk, b \in (-MaxWalk) .. MaxWalk}

\* C20: in a world without crafting, every active cell that no pickup
\* emptied has the token presence and the token value that a second fresh
\* world obtains when it materializes the same cell on its own, with its
\* player on any cell of the walk bound: what a cell starts with depends on
\* its CellId alone, not on the player position, the inventory, the view or
\* the order of the spawns.
C20_Determinism ==
    \A key \in DOMAIN cells \ emptied :
        \A player \in WalkCells :
            LET other == createCell(keyToCellId(key), player)
            IN  /\ cells[key].tokenValue = other.tokenValue
                /\ (cells[key].marker # NULL) = (other.marker # NULL)

\* after a view change, with the player away from the start and a token in
\* the inventory, a cell that was not active at the start is active, next
\* to a cell that holds a token no pickup has touched
C20_Witness ==
    /\ version = "dynamic"
    /\ outcome.branch = "MoveEnd"
    /\ playerCellId # initialPlayerCellId
    /\ playerInventory # NULL
    /\ DOMAIN cells \ DOMAIN updateVisibleCells(<<>>, CLASSROOM_LATLNG,
                                                initialPlayerCellId) # {}
    /\ \E key \in DOMAIN cells \ emptied : cells[key].tokenValue # NULL

\* C21: the default token value is an integer in 1..8 for every value draw
\* in [0,1), 1 for the smallest draw and 8 for the largest; and in a world
\* without crafting every active cell that no pickup emptied holds a token,
\* of a value in 1..8, exactly when its presence draw is below the spawn
\* probability.
C21_DefaultRange ==
    /\ \A draw \in 0 .. (LUCK_SCALE - 1) : initialTokenValue(draw) \in 1 .. 8
    /\ initialTokenValue(0) = 1
    /\ initialTokenValue(LUCK_SCALE - 1) = 8
    /\ \A key \in DOMAIN cells \ emptied :
          IF luck(key) < TOKEN_SPAWN_PROBABILITY
          THEN cells[key].tokenValue \in 1 .. 8
          ELSE cells[key].tokenValue = NULL

\* after a view change, active cells hold tokens of different values next
\* to a cell without a token
C21_Witness ==
    /\ outcome.branch = "MoveEnd"
    /\ \E k1, k2, k3 \in DOMAIN cells \ emptied :
          /\ cells[k1].tokenValue = 8
          /\ cells[k2].tokenValue \in 1 .. 7
          /\ cells[k3].tokenValue = NULL

\* the cells around the geographic origin, negative indices included
OriginCells ==
    {[i |-> a, j |-> b] : a \in (-MaxGrid) .. MaxGrid,
                          b \in (-MaxGrid) .. MaxGrid}

\* the centre of c and every point of the half-open rectangle of c map to
\* c, and the north-east corner maps to the diagonal neighbour of c
MapsBack(c) ==
    LET bounds == cellIdToBounds(c)
        center == cellIdToCenter(c)
    IN  /\ latLngToCellId(center.lat, center.lng) = c
        /\ \A lat \in bounds.sw.lat .. (bounds.ne.lat - 1),
              lng \in bounds.sw.lng .. (bounds.ne.lng - 1) :
                  latLngToCellId(lat, lng) = c
        /\ latLngToCellId(bounds.ne.lat, bounds.ne.lng) =
               [i |-> c.i + 1, j |-> c.j + 1]

\* the origin maps to the cell (0, 0) and every cell around it maps back
OriginMapsBack ==
    /\ latLngToCellId(0, 0) = [i |-> 0, j |-> 0]
    /\ \A c \in OriginCells : MapsBack(c)

\* C22: latLngToCellId maps the geographic origin to the cell (0, 0), and
\* for the cells around the origin, for the player's cell and for every
\* active cell (their j index is negative) it maps the centre of the cell
\* and every point of its half-open rectangle back to the cell; the
\* conversion does not refer to the player's start.
C22_Coordinates ==
    /\ OriginMapsBack
    /\ MapsBack(playerCellId)
    /\ \A key \in DOMAIN cells : MapsBack(keyToCellId(key))

\* the pan that follows a move has ended on the centre of the player's
\* cell, a cell with a negative index away from the start
C22_Witness ==
    /\ outcome.branch = "MoveEnd"
    /\ playerCellId # initialPlayerCellId
    /\ playerCellId.j < 0
    /\ mapCenter = cellIdToCenter(playerCellId)
    /\ latLngToCellId(mapCenter.lat, mapCenter.lng) = playerCellId

\* C23: every layer on the map that carries a click listener belongs to the
\* cell object that cells holds for its CellId: no layer of a despawned
\* cell object is left on the map, and the object stored under a key is the
\* one for that CellId.  As each event runs to completion, an interaction
\* then reads the token value and the inventory as the preceding event
\* left them.
C23_NoStaleCell ==
    /\ staleLayers = {}
    /\ ClickableLayers = DOMAIN cells
    /\ \A key \in DOMAIN cells : cells[key].cellId = keyToCellId(key)

\* in the dynamic snapshot both tokens of value 8 went into a 16, and the
\* player has picked up an 8 again: from a cell object that superseded a
\* despawned one
C23_Witness ==
    /\ version = "dynamic"
    /\ outcome.branch = "Pickup"
    /\ playerInventory = 8
    /\ \E key \in DOMAIN cells : cells[key].tokenValue = 16

\* C24: once the win indication is shown (the inventory holds a value of
\* the win set), it is shown in every later state and no later event
\* changes the inventory.
C24_WinEndsGame ==
    [][inventoryPanel.win =>
          /\ inventoryPanel'.win
          /\ playerInventory' = playerInventory]_vars

\* |c.i - p.i| + |c.j - p.j|
Manhattan(c, p) ==
    (IF c.i < p.i THEN p.i - c.i ELSE c.i - p.i)
        + (IF c.j < p.j THEN p.j - c.j ELSE c.j - p.j)

\* the CellIds up to one cell beyond the interaction distance, in each
\* coordinate, around p
Around(p) ==
    {[i |-> p.i + a, j |-> p.j + b] :
        a \in (-(INTERACTION_DISTANCE + 1)) .. (INTERACTION_DISTANCE + 1),
        b \in (-(INTERACTION_DISTANCE + 1)) .. (INTERACTION_DISTANCE + 1)}

\* C25: for the player position of every reachable state, a CellId is
\* interactable exactly when its Manhattan distance to the player is at
\* most INTERACTION_DISTANCE: the player's own cell is, exactly 25 CellIds
\* are, and a click on an active cell is answered with TooFar exactly when
\* the distance is 4 or more.
C25_ManhattanBall ==
    /\ isInteractable(playerCellId, playerCellId)
    /\ \A c \in Around(playerCellId) :
          isInteractable(c, playerCellId)
              <=> Manhattan(c, playerCellId) <= INTERACTION_DISTANCE
    /\ Cardinality({c \in Around(playerCellId) :
                       isInteractable(c, playerCellId)}) = 25
    /\ \A key \in DOMAIN cells :
          (cellInteraction(version, cells, playerInventory, statusPanel,
                           inventoryPanel, playerCellId,
                           key).outcome.branch = "TooFar")
              <=> Manhattan(keyToCellId(key), playerCellId) >= 4

\* the player has picked up a token at distance exactly 3 while a cell at
\* distance 4 is active
C25_Witness ==
    /\ outcome.branch = "Pickup"
    /\ Manhattan(keyToCellId(outcome.key), playerCellId) = 3
    /\ \E key \in DOMAIN cells :
          /\ Manhattan(keyToCellId(key), playerCellId) = 4
          /\ ~cells[key].rectangle

\* the keys (i, j) with minI <= i <= maxI and minJ <= j <= maxJ for the
\* visible bounds of the view centred on center
TargetKeys(center) ==
    LET b == getVisibleCellBounds(center)
    IN  {<<i, j>> : i \in b.minI .. b.maxI, j \in b.minJ .. b.maxJ}

\* the keys of the cells that are active when the program starts
InitialKeys ==
    DOMAIN updateVisibleCells(<<>>, CLASSROOM_LATLNG, initialPlayerCellId)

\* C26: in the dynamic snapshot the keys of the active cells are, after
\* every event, exactly the keys within the inclusive visible bounds of the
\* current view: every cell of the range is active, under its own key, and
\* no cell outside the range is.
C26_ActiveIsTarget ==
    version = "dynamic" =>
        /\ DOMAIN cells = TargetKeys(mapCenter)
        /\ \A key \in DOMAIN cells : cellIdToKey(cells[key].cellId) = key
        /\ LET b == getVisibleCellBounds(mapCenter)
           IN  Cardinality(DOMAIN cells) =
                   (b.maxI - b.minI + 1) * (b.maxJ - b.minJ + 1)

\* a view change has removed several of the cells of the start and has
\* spawned new ones
C26_Witness ==
    /\ version = "dynamic"
    /\ outcome.branch = "MoveEnd"
    /\ Cardinality(InitialKeys \ DOMAIN cells) >= 2
    /\ DOMAIN cells \ InitialKeys # {}
    /\ DOMAIN cells = TargetKeys(mapCenter)

\* C27: a move or a view change leaves the token value of every cell that
\* is active before and after it as it was, values produced by a pickup or
\* a craft included.
C27_ActiveKeepState ==
    [][\/ \A key \in DOMAIN cells \cap DOMAIN cells' :
              cells'[key].tokenValue = cells[key].tokenValue
       \/ ~(\/ \E dir \in Directions : Move(dir)
            \/ PanEnd
            \/ \E center \in PanCenters : UserPan(center))]_vars

\* after a move or a view change that has changed the active set, a cell
\* with a crafted 16 and a cell emptied by a pickup are still active
C27_Witness ==
    /\ version = "dynamic"
    /\ outcome.branch \in {"Move", "MoveEnd"}
    /\ DOMAIN cells # InitialKeys
    /\ \E key \in DOMAIN cells : cells[key].tokenValue = 16
    /\ \E key \in emptied \cap DOMAIN cells : cells[key].tokenValue = NULL

\* C28: after every event each active cell is drawn as interactable exactly
\* when its Manhattan distance to the current player position is at most
\* INTERACTION_DISTANCE, and its marker shows its current token value (no
\* marker when it holds no token).
C28_VisualsCurrent ==
    \A key \in DOMAIN cells :
        /\ cells[key].rectangle =
               (Manhattan(keyToCellId(key), playerCellId)
                    <= INTERACTION_DISTANCE)
        /\ cells[key].marker = cells[key].tokenValue

\* after a move, a cell that was interactable from the start cell is drawn
\* as not interactable, and a crafted 16 is shown
C28_Witness ==
    /\ version = "dynamic"
    /\ outcome.branch = "Move"
    /\ \E key \in DOMAIN cells :
          /\ Manhattan(keyToCellId(key), initialPlayerCellId)
                 <= INTERACTION_DISTANCE
          /\ ~cells[key].rectangle
    /\ \E key \in DOMAIN cells : cells[key].marker = 16

\* C29: in the dynamic snapshot every move and every moveend recomputes the
\* visible cells within the event: a move ends with the active cells being
\* those of the view as it then is, and the moveend that closes the pan of a
\* move ends with the view centred on the cell of the player and the active
\* cells being those of the view around that cell, the cell of the player
\* among them.
C29_RecomputeEachEvent ==
    [][/\ (version = "dynamic" /\ outcome'.branch = "Move") =>
              DOMAIN cells' = TargetKeys(mapCenter')
       /\ PanEnd =>
              /\ mapCenter' = cellIdToCenter(playerCellId')
              /\ DOMAIN cells' = TargetKeys(cellIdToCenter(playerCellId'))
              /\ cellIdToKey(playerCellId') \in DOMAIN cells']_vars

\* the pan of a move has ended: the view is centred on the new cell of the
\* player and the active cells are no longer those of the start
C29_Witness ==
    /\ version = "dynamic"
    /\ outcome.branch = "MoveEnd"
    /\ panTarget = <<>>
    /\ playerCellId # initialPlayerCellId
    /\ mapCenter = cellIdToCenter(playerCellId)
    /\ DOMAIN cells = TargetKeys(cellIdToCenter(playerCellId))
    /\ DOMAIN cells # InitialKeys

\* the direction each movement key stands for
KeyDirection ==
    [key \in Keys \ {"Enter", "q"} |->
        CASE key \in {"ArrowUp", "w", "W"} -> "north"
          [] key \in {"ArrowDown", "s", "S"} -> "south"
          [] key \in {"ArrowRight", "d", "D"} -> "east"
          [] key \in {"ArrowLeft", "a", "A"} -> "west"]

\* the cell one step from (i, j): north (i+1, j), south (i-1, j), east
\* (i, j+1), west (i, j-1)
OneStep(c, dir) ==
    CASE dir = "north" -> [i |-> c.i + 1, j |-> c.j]
      [] dir = "south" -> [i |-> c.i - 1, j |-> c.j]
      [] dir = "east"  -> [i |-> c.i, j |-> c.j + 1]
      [] dir = "west"  -> [i |-> c.i, j |-> c.j - 1]

Opposite ==
    [north |-> "south", south |-> "north", east |-> "west", west |-> "east"]

\* C30: a movement key or a movement button moves the player from (i, j)
\* to (i+1, j) for north, (i-1, j) for south, (i, j+1) for east and
\* (i, j-1) for west; every change of the position is to a cell at
\* Manhattan distance exactly 1; from the cell the player stands on, a key
\* followed by a key of the opposite direction leads back to that cell;
\* and a key that is no movement key changes nothing.
C30_OneCellStep ==
    /\ [](/\ \A key1, key2 \in DOMAIN KeyDirection :
              KeyDirection[key2] = Opposite[KeyDirection[key1]] =>
                  keydown(keydown(playerCellId, key1).newCellId,
                          key2).newCellId = playerCellId
          /\ \A dir \in Directions :
                 step(step(playerCellId, dir), Opposite[dir]) = playerCellId)
    /\ [][/\ \A key \in Keys :
                 \/ IF key \in DOMAIN KeyDirection
                    THEN playerCellId' =
                             OneStep(playerCellId, KeyDirection[key])
                    ELSE UNCHANGED vars
                 \/ ~KeyDown(key)
          /\ \A dir \in Directions :
                 \/ playerCellId' = OneStep(playerCellId, dir)
                 \/ ~Move(dir)
          /\ playerCellId' # playerCellId =>
                 Manhattan(playerCellId', playerCellId) = 1]_vars

\* the player has stepped off the start cell and back onto it
C30_Witness ==
    /\ outcome.branch = "Move"
    /\ playerCellId = initialPlayerCellId

\* the visible rectangle of a view: its south-west and north-east corner
ViewRect(center) ==
    [sw |-> [lat |-> center.lat - ViewHalf, lng |-> center.lng - ViewHalf],
     ne |-> [lat |-> center.lat + ViewHalf, lng |-> center.lng + ViewHalf]]

\* the rectangle of a cell meets a rectangle; a cell owns its south and
\* west border, as latLngToCellId assigns the points on a border
Meets(cellId, rect) ==
    LET cb == cellIdToBounds(cellId)
    IN  /\ cb.sw.lat <= rect.ne.lat
        /\ cb.ne.lat > rect.sw.lat
        /\ cb.sw.lng <= rect.ne.lng
        /\ cb.ne.lng > rect.sw.lng

\* C31: for the view of every reachable state of the dynamic snapshot, the
\* bounds of getVisibleCellBounds are ordered (minI <= maxI, minJ <= maxJ),
\* and every cell whose rectangle meets the visible rectangle lies within
\* them together with every cell up to two cells away from it in each
\* direction; all these cells are active.
C31_PaddingCovers ==
    version = "dynamic" =>
        LET b == getVisibleCellBounds(mapCenter)
            rect == ViewRect(mapCenter)
            swCell == latLngToCellId(rect.sw.lat, rect.sw.lng)
            neCell == latLngToCellId(rect.ne.lat, rect.ne.lng)
        IN  /\ b.minI <= b.maxI
            /\ b.minJ <= b.maxJ
            /\ \A i \in (swCell.i - 3) .. (neCell.i + 3),
                  j \in (swCell.j - 3) .. (neCell.j + 3) :
                   Meets([i |-> i, j |-> j], rect) =>
                       \A di, dj \in (-2) .. 2 :
                           /\ b.minI <= i + di
                           /\ i + di <= b.maxI
                           /\ b.minJ <= j + dj
                           /\ j + dj <= b.maxJ
                           /\ <<i + di, j + dj>> \in DOMAIN cells

\* the view has moved, and the cell two cells south-west of the cell of
\* its south-west corner is active, and so is the one two cells north-east
\* of the cell of its north-east corner
C31_Witness ==
    /\ version = "dynamic"
    /\ outcome.branch = "MoveEnd"
    /\ mapCenter # CLASSROOM_LATLNG
    /\ LET rect == ViewRect(mapCenter)
           swCell == latLngToCellId(rect.sw.lat, rect.sw.lng)
           neCell == latLngToCellId(rect.ne.lat, rect.ne.lng)
       IN  /\ <<swCell.i - 2, swCell.j - 2>> \in DOMAIN cells
           /\ <<neCell.i + 2, neCell.j + 2>> \in DOMAIN cells

\* C32: an interaction with a cell, whatever its outcome, changes the
\* token value of no other cell, and changes neither the player position
\* nor the set of active cells; when it changes no token value it leaves
\* the inventory as it was.  (In a step that moves the player or changes
\* the active cells no interaction has run; in a step that rewrites the
\* cells of the set R an interaction has run only on the one cell of R.)
C32_InteractionFrame ==
    [][\/ UNCHANGED <<cells, playerCellId, playerInventory>>
       \/ IF playerCellId' # playerCellId \/ DOMAIN cells' # DOMAIN cells
          THEN \A key \in DOMAIN cells : ~Interact(key)
          ELSE LET R == {k \in DOMAIN cells :
                            cells'[k].tokenValue # cells[k].tokenValue}
               IN  \/ R = {} /\ playerInventory' = playerInventory
                   \/ \A key \in DOMAIN cells :
                          \/ R = {key}
                          \/ ~Interact(key)]_vars

\* a craft has just written a cell while another cell holds the token it
\* spawned with and a third one is empty after a pickup
C32_Witness ==
    /\ outcome.branch = "Craft"
    /\ emptied # {}
    /\ \E k \in DOMAIN cells \ (emptied \cup {outcome.key}) :
          cells[k].tokenValue # NULL

RECURSIVE SumTokens(_, _)
\* the sum of the token values of the cells of cs stored under keys, all
\* of them holding a token
SumTokens(cs, keys) ==
    IF keys = {} THEN 0
    ELSE LET k == CHOOSE x \in keys : TRUE
         IN  cs[k].tokenValue + SumTokens(cs, keys \ {k})

\* the inventory value, 0 when none, plus the token values of all active
\* cells
TotalValue(cs, inv) ==
    (IF inv = NULL THEN 0 ELSE inv)
        + SumTokens(cs, {k \in DOMAIN cs : cs[k].tokenValue # NULL})

\* C33: every interaction leaves unchanged the sum of the inventory value
\* (0 when none) and the token values of all active cells: a pickup moves
\* v from the cell to the inventory, a craft turns x in the inventory and
\* x in the cell into 2x in the cell, and every other outcome changes
\* nothing; the sum changes only in a step that is no interaction and that
\* changes the set of active cells.
C33_ValueConserved ==
    [][\/ UNCHANGED <<cells, playerInventory>>
       \/ TotalValue(cells', playerInventory')
              = TotalValue(cells, playerInventory)
       \/ /\ DOMAIN cells' # DOMAIN cells
          /\ \A key \in DOMAIN cells : ~Interact(key)]_vars

\* a craft has just put 16 in a cell, from 8 picked up and 8 in the cell
C33_Witness ==
    /\ outcome.branch = "Craft"
    /\ playerInventory = NULL
    /\ cells[outcome.key].tokenValue = 16
    /\ TotalValue(cells, playerInventory) >= 16

\* C34: the interactions that change state alternate between pickup and
\* craft, starting with a pickup.  The inventory starts empty; an
\* interaction that changes the token value of its cell is either a pickup,
\* which finds the inventory empty and leaves it full, or a craft, which
\* finds the inventory full and leaves it empty; and the inventory changes
\* in no step other than these.  So between two pickups the inventory has
\* been emptied by a craft, and before every craft it has been filled by a
\* pickup that no other craft has followed.
C34_PickupCraftAlternate ==
    /\ playerInventory = NULL
    /\ [][\/ UNCHANGED <<cells, playerInventory>>
          \/ /\ \A key \in DOMAIN cells \cap DOMAIN cells' :
                    \/ cells'[key].tokenValue = cells[key].tokenValue
                    \/ /\ cells[key].tokenValue # NULL
                       /\ cells'[key].tokenValue = NULL
                       /\ playerInventory = NULL
                       /\ playerInventory' = cells[key].tokenValue
                    \/ /\ playerInventory # NULL
                       /\ cells[key].tokenValue = playerInventory
                       /\ cells'[key].tokenValue = 2 * playerInventory
                       /\ playerInventory' = NULL
                    \/ ~Interact(key)
             /\ playerInventory' # playerInventory =>
                    /\ (playerInventory = NULL) # (playerInventory' = NULL)
                    /\ outcome'.key \in DOMAIN cells
                    /\ Interact(outcome'.key)
                    /\ cells'[outcome'.key].tokenValue
                           # cells[outcome'.key].tokenValue]_vars

\* a pickup, a craft and a second pickup: the crafted 16 is in the hand
C34_Witness ==
    /\ outcome.branch = "Pickup"
    /\ playerInventory = 16
    /\ cells[outcome.key].tokenValue = NULL

\* the values d * 2^k with d in 1..8, up to 8 * 2^5
WellFormedValues == {d * (2 ^ k) : d \in 1 .. 8, k \in 0 .. 5}

\* C35: in every reachable state every token value of a cell and the
\* inventory value, when present, is a positive integer d * 2^k with d in
\* 1..8; and the token value of a cell that stays active changes only by
\* being taken away or by doubling, and the inventory only by being
\* emptied or by taking the value of a cell as it is.
C35_WellFormedValues ==
    /\ [](/\ playerInventory # NULL =>
                 playerInventory > 0 /\ playerInventory \in WellFormedValues
          /\ \A key \in DOMAIN cells :
                 cells[key].tokenValue # NULL =>
                     /\ cells[key].tokenValue > 0
                     /\ cells[key].tokenValue \in WellFormedValues)
    /\ [][\/ UNCHANGED <<cells, playerInventory>>
          \/ /\ \A key \in DOMAIN cells \cap DOMAIN cells' :
                    \/ cells'[key].tokenValue = cells[key].tokenValue
                    \/ cells'[key].tokenValue = NULL
                    \/ /\ cells[key].tokenValue # NULL
                       /\ cells'[key].tokenValue = 2 * cells[key].tokenValue
             /\ \/ playerInventory' = playerInventory
                \/ playerInventory' = NULL
                \/ /\ playerInventory = NULL
                   /\ \E key \in DOMAIN cells :
                          cells[key].tokenValue = playerInventory']_vars

\* a 3 is in the hand and a crafted 16 lies in a cell
C35_Witness ==
    /\ playerInventory = 3
    /\ \E key \in DOMAIN cells : cells[key].tokenValue = 16

\* C36: right after a pickup that puts a value of the win set in the
\* inventory, the status panel holds the pickup message with that value and
\* not the win message, although updateInventoryDisplay writes the win
\* message for this inventory; the win is indicated in the inventory panel.
C36_WinMessageOverwritten ==
    (outcome.branch = "Pickup" /\ playerInventory \in WinSet) =>
        /\ statusPanel = <<"PickedUp", playerInventory>>
        /\ statusPanel # <<"Congratulations">>
        /\ updateInventoryDisplay(playerInventory, <<"Ready">>,
                                  version).statusPanel = <<"Congratulations">>
        /\ inventoryPanel = [value |-> playerInventory, win |-> TRUE]

\* the crafted 16 of the fixed snapshot has just been picked up
C36_Witness ==
    /\ version = "fixed"
    /\ outcome.branch = "Pickup"
    /\ playerInventory = 16
    /\ inventoryPanel.win
    /\ statusPanel = <<"PickedUp", 16>>

\* the keys of the cells at offsets -VISIBLE_GRID_SIZE .. VISIBLE_GRID_SIZE - 1
\* in i and in j from the start cell
GridKeys ==
    {<<initialPlayerCellId.i + di, initialPlayerCellId.j + dj>> :
        di \in (-VISIBLE_GRID_SIZE) .. (VISIBLE_GRID_SIZE - 1),
        dj \in (-VISIBLE_GRID_SIZE) .. (VISIBLE_GRID_SIZE - 1)}

\* the player stands more than INTERACTION_DISTANCE cells beyond an edge of
\* the grid
BeyondGrid ==
    LET di == playerCellId.i - initialPlayerCellId.i
        dj == playerCellId.j - initialPlayerCellId.j
    IN  \/ di > (VISIBLE_GRID_SIZE - 1) + INTERACTION_DISTANCE
        \/ di < (-VISIBLE_GRID_SIZE) - INTERACTION_DISTANCE
        \/ dj > (VISIBLE_GRID_SIZE - 1) + INTERACTION_DISTANCE
        \/ dj < (-VISIBLE_GRID_SIZE) - INTERACTION_DISTANCE

\* C37: in the fixed snapshot the active cells are at all times exactly the
\* (2 * VISIBLE_GRID_SIZE) x (2 * VISIBLE_GRID_SIZE) cells at offsets
\* -VISIBLE_GRID_SIZE .. VISIBLE_GRID_SIZE - 1 from the start cell, each under
\* its own key; a move adds and removes no cell and changes no token value,
\* so that a cell a pickup emptied stays empty wherever the player walks;
\* and when the player stands more than INTERACTION_DISTANCE cells beyond
\* the grid no cell is drawn as interactable or is interactable.
C37_FixedGrid ==
    /\ [](/\ DOMAIN cells = GridKeys
          /\ Cardinality(DOMAIN cells)
                 = (2 * VISIBLE_GRID_SIZE) * (2 * VISIBLE_GRID_SIZE)
          /\ \A key \in DOMAIN cells :
                 /\ cellIdToKey(cells[key].cellId) = key
                 /\ key \in emptied => cells[key].tokenValue = NULL
                 /\ BeyondGrid =>
                        /\ ~cells[key].rectangle
                        /\ ~isInteractable(cells[key].cellId, playerCellId))
    /\ [][playerCellId' # playerCellId =>
              /\ DOMAIN cells' = DOMAIN cells
              /\ \A key \in DOMAIN cells :
                     cells'[key].tokenValue = cells[key].tokenValue]_vars

\* the player has walked beyond the grid with a token in the hand, leaving
\* an emptied cell and a cell with a token behind
C37_Witness ==
    /\ BeyondGrid
    /\ outcome.branch = "Move"
    /\ playerInventory # NULL
    /\ emptied # {}
    /\ \E key \in DOMAIN cells : cells[key].tokenValue # NULL

\* the cells up to a few cells beyond every view of the walk around the
\* origin, and their key texts
ProbeCells ==
    {[i |-> a, j |-> b] : a \in (-4) .. (MaxOrigin + 5),
                          b \in (-4) .. (MaxOrigin + 5)}

ProbeText == [p \in ProbeCells |-> cellKeyText(p)]

\* the number a text of digits, with or without a leading minus, stands for
RECURSIVE textNatural(_)
textNatural(t) ==
    IF t = <<>> THEN 0
    ELSE 10 * textNatural(SubSeq(t, 1, Len(t) - 1))
             + (CHOOSE d \in 0 .. 9 : DigitChar[d + 1] = t[Len(t)])

textNumber(t) ==
    IF t[1] = "-" THEN -textNatural(SubSeq(t, 2, Len(t))) ELSE textNatural(t)

\* a key text cut at its first comma, both parts read as numbers; the
\* empty tuple for a text without a comma
textToKey(t) ==
    IF \A m \in 1 .. Len(t) : t[m] # "," THEN <<>>
    ELSE LET n == CHOOSE m \in 1 .. Len(t) :
                      t[m] = "," /\ \A l \in 1 .. (m - 1) : t[l] # ","
         IN  <<textNumber(SubSeq(t, 1, n - 1)),
               textNumber(SubSeq(t, n + 1, Len(t)))>>

\* C38: the key text of every active cell is the key text of no other cell
\* (of one, two or more digits, of either sign), so that two cells never
\* share an entry of the cells map or a presence draw; the text of the
\* value draw of a cell is the key text of no cell, and the key text of a
\* cell is the value-draw text of none; and the key the cell is stored
\* under is its key text cut at the comma.
C38_KeysInjective ==
    \A key \in DOMAIN cells :
        LET c == cells[key].cellId
            t == cellKeyText(c)
            v == valueKeyText(c)
        IN  /\ c \in ProbeCells
            /\ key = cellIdToKey(c)
            /\ v # t
            /\ \A p \in ProbeCells :
                   /\ ProbeText[p] = t => p = c
                   /\ ProbeText[p] # v
                   /\ valueKeyText(p) # t
            /\ textToKey(t) = key

\* after a move the cells (1, 10) and (-1, 11) are active: indices of one
\* and of two digits and a negative one, with the key texts 1,10 and -1,11
C38_Witness ==
    /\ <<1, 10>> \in DOMAIN cells
    /\ <<-1, 11>> \in DOMAIN cells
    /\ outcome.branch = "Move"
    /\ cellKeyText([i |-> 1, j |-> 10]) = <<"1", ",", "1", "0">>
    /\ cellKeyText([i |-> -1, j |-> 11]) = <<"-", "1", ",", "1", "1">>

=============================================================================
